---- MODULE Spec2Model ----
(***************************************************************************)
(* Lightmetrica v2: the BVH accelerator (accel_bvh.cpp) over the bound and *)
(* vector/matrix layer (bound.h, math.h).                                  *)
(*                                                                         *)
(* Floating-point quantities are modelled exactly: coordinates are         *)
(* integers on a grid whose unit is Math::Eps(), ray parameters and        *)
(* barycentrics are reduced fractions [n, d] with d > 0, and the float     *)
(* infinity is the sentinel Inf, larger than every finite quantity of the  *)
(* bounded model.                                                          *)
(***************************************************************************)
EXTENDS Integers, Sequences, FiniteSets, TLC

VARIABLES
    triangles_,     \* Accel_BVH::triangles_  (std::vector<TriAccelTriangle>)
    nodes_,         \* Accel_BVH::nodes_      (std::vector<unique_ptr<BVHNode>>)
    bounds_,        \* the local bounds_ of the most recent Build
    buildRet,       \* return value of the most recent Build (FALSE before the first)
    builtScene,     \* the scene handed to the most recent Build
    numBuilds,      \* number of Build calls that returned
    prevAccel,      \* triangles_ / nodes_ / scene as they were before the most recent Build
    crashed,        \* the process died inside Build (out-of-range read)
    th,             \* per calling thread: the locals and the call stack of Intersect
    calc,           \* the math layer used on its own: operands and results of one call
    lg              \* the logger: singleton, io_service, worker thread, indentation, output

vars == <<triangles_, nodes_, bounds_, buildRet, builtScene, numBuilds, prevAccel, crashed, th,
          calc, lg>>

-----------------------------------------------------------------------------
(* Bounds of the model *)

MaxBuilds == 2
NThreads == 2

-----------------------------------------------------------------------------
(* Scalars *)

\* Math::Inf(): the float infinity
Inf == 1000000

\* Math::Eps(): the padding of a triangle bound; the grid unit
Eps == 1

\* const int LeafNumNodes = 10
LeafNumNodes == 10

Abs(x) == IF x < 0 THEN -x ELSE x

RECURSIVE GCD(_, _)
GCD(a, b) == IF b = 0 THEN a ELSE GCD(b, a % b)

\* A fraction n/d in lowest terms with a positive denominator.
Frac(n, d) ==
    LET s == IF d < 0 THEN -1 ELSE 1
        g == GCD(Abs(n), Abs(d))
    IN  [n |-> (s * n) \div g, d |-> (s * d) \div g]

Num(k) == [n |-> k, d |-> 1]

FLe(a, b) == a.n * b.d <= b.n * a.d
FLt(a, b) == a.n * b.d < b.n * a.d
FAdd(a, b) == Frac(a.n * b.d + b.n * a.d, a.d * b.d)
FMulInt(a, k) == Frac(a.n * k, a.d)

\* Math::Min / Math::Max on scalars
MinS(a, b) == IF b < a THEN b ELSE a
MaxS(a, b) == IF a < b THEN b ELSE a

-----------------------------------------------------------------------------
(* math.h: vectors and matrices.  A Vec3 is <<x, y, z>>, a Vec4 is          *)
(* <<x, y, z, w>>, a Mat4 is the sequence of its four columns.              *)

Vec3Add(a, b) == <<a[1] + b[1], a[2] + b[2], a[3] + b[3]>>
Vec3Sub(a, b) == <<a[1] - b[1], a[2] - b[2], a[3] - b[3]>>
Vec4Add(a, b) == <<a[1] + b[1], a[2] + b[2], a[3] + b[3], a[4] + b[4]>>
Vec4Scale(v, s) == <<v[1] * s, v[2] * s, v[3] * s, v[4] * s>>

Dot3(a, b) == a[1] * b[1] + a[2] * b[2] + a[3] * b[3]
Cross3(a, b) == <<a[2] * b[3] - a[3] * b[2],
                  a[3] * b[1] - a[1] * b[3],
                  a[1] * b[2] - a[2] * b[1]>>

\* TMat4::Identity(): the initializer list is stored column by column
Mat4Identity == <<(<<1, 0, 0, 0>>), (<<0, 1, 0, 0>>), (<<0, 0, 1, 0>>), (<<0, 0, 0, 1>>)>>

\* operator*(TMat4, TVec4): m[c][r] is row r of column c
Mat4MulVec4(m, v) ==
    <<m[1][1] * v[1] + m[2][1] * v[2] + m[3][1] * v[3] + m[4][1] * v[4],
      m[1][2] * v[1] + m[2][2] * v[2] + m[3][2] * v[3] + m[4][2] * v[4],
      m[1][3] * v[1] + m[2][3] * v[2] + m[3][3] * v[3] + m[4][3] * v[4],
      m[1][4] * v[1] + m[2][4] * v[2] + m[3][4] * v[3] + m[4][4] * v[4]>>

\* a translation whose last column leaves out m[3]
TranslateMWithoutColumn(m, v) ==
    [m EXCEPT ![4] = Vec4Add(Vec4Add(Vec4Scale(m[1], v[1]), Vec4Scale(m[2], v[2])),
                             Vec4Scale(m[3], v[3]))]

\* Math::Translate(m, v): r = m; r[3] = m[0]*v.x + m[1]*v.y + m[2]*v.z + m[3]
TranslateM(m, v) ==
    [m EXCEPT ![4] = Vec4Add(Vec4Add(Vec4Scale(m[1], v[1]), Vec4Scale(m[2], v[2])),
                             Vec4Add(Vec4Scale(m[3], v[3]), m[4]))]

\* Math::Translate(v)
Translate(v) == TranslateM(Mat4Identity, v)

\* Vec3(const Vec4&): drops w
Vec3FromVec4(v) == <<v[1], v[2], v[3]>>

-----------------------------------------------------------------------------
(* math.h with rounding.  Where the per-component and the vectorized code  *)
(* are compared, a Float is an integer with MantissaBits significant bits  *)
(* and every + - * rounds its exact result to the nearest such number,     *)
(* ties to even, as IEEE arithmetic does with 24 or 53 bits.  A vector of  *)
(* the per-component code is the sequence of its NC components; a vector   *)
(* of the vectorized code is the sequence of the four lanes of its         *)
(* register, the fourth lane of a Vec3 being the padding lane `_`.         *)

MantissaBits == 3

RECURSIVE Pow2(_)
Pow2(k) == IF k = 0 THEN 1 ELSE 2 * Pow2(k - 1)

\* the number of bits of n >= 0
RECURSIVE BitLen(_)
BitLen(n) == IF n = 0 THEN 0 ELSE 1 + BitLen(n \div 2)

\* the Float nearest to the exact value x
Fl(x) ==
    LET a == Abs(x)
        q == IF BitLen(a) > MantissaBits THEN Pow2(BitLen(a) - MantissaBits) ELSE 1
        m == a \div q
        r == a % q
        up == 2 * r > q \/ (2 * r = q /\ m % 2 = 1)
        n == (IF up THEN m + 1 ELSE m) * q
    IN  IF x < 0 THEN -n ELSE n

FlAdd(a, b) == Fl(a + b)
FlSub(a, b) == Fl(a - b)
FlMul(a, b) == Fl(a * b)

\* a / b: one correctly rounded operation on one lane in either code; kept as
\* the quotient itself, x/0 being +Inf, -Inf or NaN by the sign of x
FlDiv(a, b) ==
    IF b = 0 THEN [n |-> IF a > 0 THEN 1 ELSE IF a < 0 THEN -1 ELSE 0, d |-> 0]
    ELSE Frac(a, b)

\* result[i] = v1[i] op v2[i] on one component or lane
Lane(op, a, b) ==
    IF op = "+" THEN Num(FlAdd(a, b))
    ELSE IF op = "-" THEN Num(FlSub(a, b))
    ELSE IF op = "*" THEN Num(FlMul(a, b))
    ELSE FlDiv(a, b)

\* operator+, operator-, operator*, operator/ on VecT<T, SIMD::None>:
\* for (i = 0; i < N; i++) result[i] = v1[i] op v2[i]
VecOpNone(op, v1, v2) == [i \in 1..Len(v1) |-> Lane(op, v1[i], v2[i])]

\* the same operators on VecT<float, SIMD::SSE> and VecT<double, SIMD::AVX>:
\* _mm_add_ps(v1.v_, v2.v_) and its kin work on all four lanes
VecOpSIMD(op, v1, v2) == [i \in 1..4 |-> Lane(op, v1[i], v2[i])]

\* Math::Dot(TVec3, TVec3): v1.x * v2.x + v1.y * v2.y + v1.z * v2.z
Dot3None(v1, v2) ==
    FlAdd(FlAdd(FlMul(v1[1], v2[1]), FlMul(v1[2], v2[2])), FlMul(v1[3], v2[3]))

\* _mm_dp_ps(a, b, mask): the products of the lanes the high nibble selects
\* (the others are 0), summed as (p0 + p1) + (p2 + p3)
DpPs(a, b, lanes) ==
    LET p(i) == IF i \in lanes THEN FlMul(a[i], b[i]) ELSE 0
    IN  FlAdd(FlAdd(p(1), p(2)), FlAdd(p(3), p(4)))

\* a dot product of Vec3 taken over all four lanes
Dot3SSEAllLanes(v1, v2) == DpPs(v1, v2, {1, 2, 3, 4})

\* Math::Dot<float, SIMD::SSE>(TVec3, TVec3): _mm_dp_ps(v1.v_, v2.v_, 0x71)
Dot3SSE(v1, v2) == DpPs(v1, v2, {1, 2, 3})

\* _mm256_hadd_pd(t, t) followed by the sum of the upper and the lower half:
\* (t[2] + t[3]) + (t[0] + t[1])
HAddHalves(t) == FlAdd(FlAdd(t[3], t[4]), FlAdd(t[1], t[2]))

\* Math::Dot<double, SIMD::AVX>(TVec3, TVec3): the fourth lanes are blended
\* to zero before the multiplication
Dot3AVX(v1, v2) ==
    HAddHalves([i \in 1..4 |-> IF i = 4 THEN FlMul(0, 0) ELSE FlMul(v1[i], v2[i])])

\* Math::Dot(TVec4, TVec4): v1.x * v2.x + v1.y * v2.y + v1.z * v2.z + v1.w * v2.w
Dot4None(v1, v2) ==
    FlAdd(FlAdd(FlAdd(FlMul(v1[1], v2[1]), FlMul(v1[2], v2[2])), FlMul(v1[3], v2[3])),
          FlMul(v1[4], v2[4]))

\* Math::Dot<float, SIMD::SSE>(TVec4, TVec4): _mm_dp_ps(v1.v_, v2.v_, 0xf1)
Dot4SSE(v1, v2) == DpPs(v1, v2, {1, 2, 3, 4})

\* Math::Dot<double, SIMD::AVX>(TVec4, TVec4)
Dot4AVX(v1, v2) == HAddHalves([i \in 1..4 |-> FlMul(v1[i], v2[i])])

\* operator*(TMat3, TVec3): row r is m[0][r] * v.x + m[1][r] * v.y + m[2][r] * v.z
Mat3MulVec3None(m, v) ==
    [r \in 1..3 |-> FlAdd(FlAdd(FlMul(m[1][r], v[1]), FlMul(m[2][r], v[2])),
                          FlMul(m[3][r], v[3]))]

\* operator*(TMat3<float, SSE>, TVec3<float, SSE>) and its AVX twin: on every
\* lane (m[0] * xxxx + m[1] * yyyy) + m[2] * zzzz
Mat3MulVec3SIMD(m, v) ==
    [r \in 1..4 |-> FlAdd(FlAdd(FlMul(m[1][r], v[1]), FlMul(m[2][r], v[2])),
                          FlMul(m[3][r], v[3]))]

\* TMat3(std::initializer_list<VT> l): v_[i][j] = l.begin()[i * NC + j]
Mat3FromList(l) == [i \in 1..3 |-> [j \in 1..3 |-> l[(i - 1) * 3 + j]]]

\* TMat3::Identity(): MatT{ 1,0,0, 0,1,0, 0,1,0 }
Mat3Identity == Mat3FromList(<<1, 0, 0, 0, 1, 0, 0, 1, 0>>)

\* operator*(TMat3, TMat3): TMat3(m1 * m2[0], m1 * m2[1], m1 * m2[2])
Mat3MulMat3(m1, m2) == [i \in 1..3 |-> Mat3MulVec3None(m1, m2[i])]

\* operator*(TMat4, TVec4) in rounded arithmetic: the four products of a row
\* are added from left to right
Mat4MulVec4None(m, v) ==
    [r \in 1..4 |-> FlAdd(FlAdd(FlAdd(FlMul(m[1][r], v[1]), FlMul(m[2][r], v[2])),
                                FlMul(m[3][r], v[3])),
                          FlMul(m[4][r], v[4]))]

\* operator*(TMat4<float, SSE>, TVec4<float, SSE>) and its AVX twin: on every
\* lane (m[0] * xxxx + m[1] * yyyy) + (m[2] * zzzz + m[3] * wwww)
Mat4MulVec4SIMD(m, v) ==
    [r \in 1..4 |-> FlAdd(FlAdd(FlMul(m[1][r], v[1]), FlMul(m[2][r], v[2])),
                          FlAdd(FlMul(m[3][r], v[3]), FlMul(m[4][r], v[4])))]

-----------------------------------------------------------------------------
(* bound.h *)

\* Math::Min / Math::Max on Vec3
Min3(a, b) == <<MinS(a[1], b[1]), MinS(a[2], b[2]), MinS(a[3], b[3])>>
Max3(a, b) == <<MaxS(a[1], b[1]), MaxS(a[2], b[2]), MaxS(a[3], b[3])>>

\* What uninitialised or out-of-range memory may hold when Build reads it:
\* lmin/lmax are read into the y and z lanes of a default-constructed Bound
\* (Vec3 min{ Math::Inf() } runs TVec3(std::initializer_list) on a list of one
\* element, which reads l.begin()[1] and l.begin()[2]); omin/omax fill a Bound
\* read beyond the end of bounds_; pos is a position read beyond the end of a
\* mesh's position array.
Garbage ==
    { [lmin |-> Inf, lmax |-> -Inf, omin |-> Inf, omax |-> -Inf, pos |-> 0],
      [lmin |-> 7,   lmax |-> 7,    omin |-> 7,   omax |-> 7,    pos |-> 7],
      [lmin |-> -Inf, lmax |-> Inf, omin |-> -Inf, omax |-> Inf,  pos |-> 0] }

\* struct Bound { Vec3 min{ Math::Inf() }; Vec3 max{ -Math::Inf() }; }
BoundDefault(g) == [min |-> <<Inf, g.lmin, g.lmin>>, max |-> <<-Inf, g.lmax, g.lmax>>]

\* Math::Union(const Bound&, const Bound&)
UnionBB(a, b) == [min |-> Min3(a.min, b.min), max |-> Max3(a.max, b.max)]

\* Math::Union(const Bound&, const Vec3&)
UnionBP(a, p) == [min |-> Min3(a.min, p), max |-> Max3(a.max, p)]

\* a encloses b on every axis
Encloses(a, b) ==
    \A k \in 1..3 : a.min[k] <= b.min[k] /\ b.max[k] <= a.max[k]

\* Bound::Intersect(ray, minT, maxT): per-axis slab clipping of the ray's
\* parameter interval; an axis the ray is parallel to admits the ray only when
\* the origin lies inside the slab.
BoundIntersect(b, ray, minT, maxT) ==
    LET Near(k) == IF ray.d[k] > 0 THEN Frac(b.min[k] - ray.o[k], ray.d[k])
                                   ELSE Frac(b.max[k] - ray.o[k], ray.d[k])
        Far(k)  == IF ray.d[k] > 0 THEN Frac(b.max[k] - ray.o[k], ray.d[k])
                                   ELSE Frac(b.min[k] - ray.o[k], ray.d[k])
        Moving == {k \in 1..3 : ray.d[k] # 0}
    IN  /\ \A k \in (1..3) \ Moving : b.min[k] <= ray.o[k] /\ ray.o[k] <= b.max[k]
        /\ \A k \in Moving : FLe(Near(k), Far(k)) /\ FLe(minT, Far(k)) /\ FLe(Near(k), maxT)
        /\ \A j, k \in Moving : FLe(Near(j), Far(k))
        /\ FLe(minT, maxT)

-----------------------------------------------------------------------------
(* triaccel.h: the precomputed triangle *)

\* TriAccelTriangle::Load(p1, p2, p3) on a fresh TriAccelTriangle
LoadTriangle(primIndex, faceIndex, p1, p2, p3) ==
    [faceIndex |-> faceIndex, primIndex |-> primIndex, p1 |-> p1, p2 |-> p2, p3 |-> p3]

\* TriAccelTriangle::Intersect(ray, mint, maxt, u, v, t): two-sided test; a hit
\* yields the barycentrics (u, v) and the parameter t with mint <= t <= maxt; a
\* zero-area triangle and a ray parallel to the plane report no hit.
TriIntersect(tri, ray, minT, maxT) ==
    LET e1  == Vec3Sub(tri.p2, tri.p1)
        e2  == Vec3Sub(tri.p3, tri.p1)
        pv  == Cross3(ray.d, e2)
        det == Dot3(e1, pv)
        tv  == Vec3Sub(ray.o, tri.p1)
        qv  == Cross3(tv, e1)
        u   == Frac(Dot3(tv, pv), det)
        v   == Frac(Dot3(ray.d, qv), det)
        t   == Frac(Dot3(e2, qv), det)
    IN  IF det = 0 THEN [hit |-> FALSE]
        ELSE IF /\ FLe(Num(0), u) /\ FLe(Num(0), v) /\ FLe(FAdd(u, v), Num(1))
                /\ FLe(minT, t) /\ FLe(t, maxT)
             THEN [hit |-> TRUE, b |-> <<u, v>>, t |-> t]
             ELSE [hit |-> FALSE]

-----------------------------------------------------------------------------
(* Scenes.  A mesh exposes Positions() (flat, stride 3), Faces() (flat,     *)
(* stride 3, zero-based vertex indices) and NumFaces(); a primitive is a    *)
(* mesh handle, possibly absent, and a transform.                           *)

\* the absent mesh handle (prim->mesh == nullptr)
NoMesh == [null |-> TRUE, positions |-> << >>, faces |-> << >>, numFaces |-> 0]

Mesh(positions, faces) ==
    [null |-> FALSE, positions |-> positions, faces |-> faces, numFaces |-> Len(faces) \div 3]

Primitive(mesh, transform) == [mesh |-> mesh, transform |-> transform]

\* one triangle in the plane x = 0
MeshTri == Mesh(<<0,0,0, 0,4,0, 0,0,4>>, <<0,1,2>>)

\* a mesh without faces
MeshNoFaces == Mesh(<<0,0,0>>, << >>)

\* a face referencing vertex 3 of a three-vertex mesh
MeshBad == Mesh(<<0,0,0, 0,4,0, 0,0,4>>, <<0,1,3>>)

\* a strip of 2*m triangles in the plane x = 0: vertices a_k = (0, 0, 4k) at
\* index 2k and b_k = (0, 4, 4k) at index 2k+1
RECURSIVE StripPositions(_)
StripPositions(k) ==
    IF k < 0 THEN << >> ELSE StripPositions(k - 1) \o <<0, 0, 4 * k, 0, 4, 4 * k>>

RECURSIVE StripFaces(_)
StripFaces(k) ==
    IF k < 0 THEN << >>
    ELSE StripFaces(k - 1) \o <<2 * k, 2 * k + 1, 2 * k + 2, 2 * k + 1, 2 * k + 3, 2 * k + 2>>

MeshStrip == Mesh(StripPositions(5), StripFaces(4))

\* the first nine triangles of that strip
MeshNine == Mesh(StripPositions(5), SubSeq(StripFaces(4), 1, 27))

SceneEmpty == << >>
SceneNoFaces == <<Primitive(NoMesh, Mat4Identity), Primitive(MeshNoFaces, Mat4Identity)>>
SceneFarNear == <<Primitive(MeshTri, Translate(<<4, 0, 0>>)),
                  Primitive(NoMesh, Mat4Identity),
                  Primitive(MeshTri, Translate(<<2, 0, 0>>))>>
SceneNearFar == <<Primitive(MeshTri, Translate(<<2, 0, 0>>)),
                  Primitive(MeshTri, Translate(<<4, 0, 0>>))>>
SceneStrips == <<Primitive(MeshStrip, Translate(<<3, 0, 0>>)),
                 Primitive(NoMesh, Mat4Identity),
                 Primitive(MeshStrip, Translate(<<1, 0, 0>>))>>
SceneBad == <<Primitive(MeshBad, Translate(<<2, 0, 0>>))>>
SceneNineTen == <<Primitive(MeshNine, Translate(<<3, 0, 0>>)),
                  Primitive(MeshStrip, Translate(<<1, 0, 0>>))>>

Scenes == {SceneEmpty, SceneNoFaces, SceneFarNear, SceneNearFar, SceneStrips, SceneBad,
           SceneNineTen}

\* Scene::NumPrimitives / Scene::PrimitiveAt(i), i zero-based
NumPrimitives(scene) == Len(scene)
PrimitiveAt(scene, i) == scene[i + 1]

\* ps[k]: a read of the flat position array; beyond its end the read yields
\* whatever the memory holds
PsAt(mesh, k, g) ==
    IF k < Len(mesh.positions) THEN mesh.positions[k + 1] ELSE g.pos

\* some face of the mesh names a vertex the position array does not hold
MeshOutOfRange(mesh) ==
    \E k \in 1..Len(mesh.faces) : 3 * mesh.faces[k] + 2 >= Len(mesh.positions)

SceneOutOfRange(scene) ==
    \E i \in 1..Len(scene) : ~scene[i].mesh.null /\ MeshOutOfRange(scene[i].mesh)

NumFacesOf(prim) == IF prim.mesh.null THEN 0 ELSE prim.mesh.numFaces

RECURSIVE TotalFaces(_)
TotalFaces(scene) ==
    IF scene = << >> THEN 0 ELSE NumFacesOf(Head(scene)) + TotalFaces(Tail(scene))

-----------------------------------------------------------------------------
(* Accel_BVH::Build *)

\* Vec3 p(prim->transform * Vec4(ps[3*i], ps[3*i+1], ps[3*i+2], 1_f))
FaceVertex(prim, vi, g) ==
    Vec3FromVec4(Mat4MulVec4(prim.transform,
        <<PsAt(prim.mesh, 3 * vi, g), PsAt(prim.mesh, 3 * vi + 1, g),
          PsAt(prim.mesh, 3 * vi + 2, g), 1>>))

\* a tag that counts only the primitives that have a mesh
TagPrimIndexCompact(scene, i) ==
    Cardinality({k \in 0..i - 1 : ~PrimitiveAt(scene, k).mesh.null})

\* triangles_.back().primIndex = i
TagPrimIndex(scene, i) == i

\* the triangle created for face j of primitive i
CreateTriaccel(scene, i, j, g) ==
    LET prim == PrimitiveAt(scene, i)
        faces == prim.mesh.faces
    IN  LoadTriangle(TagPrimIndex(scene, i), j,
                     FaceVertex(prim, faces[3 * j + 1], g),
                     FaceVertex(prim, faces[3 * j + 2], g),
                     FaceVertex(prim, faces[3 * j + 3], g))

\* Bound bound; three Unions with the vertices
VertexBound(tri, g) ==
    UnionBP(UnionBP(UnionBP(BoundDefault(g), tri.p1), tri.p2), tri.p3)

\* bound.min -= Vec3(Math::Eps()); bound.max += Vec3(Math::Eps())
Expand(b) ==
    [min |-> <<b.min[1] - Eps, b.min[2] - Eps, b.min[3] - Eps>>,
     max |-> <<b.max[1] + Eps, b.max[2] + Eps, b.max[3] + Eps>>]

\* the bound pushed to bounds_ for a triangle
TriangleBound(tri, g) == Expand(VertexBound(tri, g))

\* a face loop that runs from the last face to the first
FaceLoopBackwards(scene, i, g) ==
    LET n == PrimitiveAt(scene, i).mesh.numFaces
        tris == [k \in 1..n |-> CreateTriaccel(scene, i, n - k, g)]
    IN  [tris |-> tris,
         bounds |-> [k \in 1..Len(tris) |-> TriangleBound(tris[k], g)]]

\* for (j = 0; j < mesh->NumFaces(); j++): the triangles and the bounds pushed
\* for primitive i, in face order
FaceLoop(scene, i, g) ==
    LET tris == [k \in 1..PrimitiveAt(scene, i).mesh.numFaces |->
                    CreateTriaccel(scene, i, k - 1, g)]
    IN  [tris |-> tris,
         bounds |-> [k \in 1..Len(tris) |-> TriangleBound(tris[k], g)]]

\* if (mesh): a primitive without a mesh is skipped
PrimitiveHasMesh(prim) == ~prim.mesh.null

\* for (i = 0; i < np; i++): what the primitives 0 .. np-1 push after acc
RECURSIVE PrimitiveLoop(_, _, _, _)
PrimitiveLoop(scene, np, g, acc) ==
    IF np = 0 THEN acc
    ELSE LET before == PrimitiveLoop(scene, np - 1, g, acc)
         IN  IF PrimitiveHasMesh(PrimitiveAt(scene, np - 1))
             THEN LET f == FaceLoop(scene, np - 1, g)
                  IN  [tris |-> before.tris \o f.tris, bounds |-> before.bounds \o f.bounds]
             ELSE before

\* the triangle sequence Build starts to append to
BuildStartTriangles(old) == old

\* region "Create triaccels": triangles_ after the loops, and the local bounds_
CreateTriaccels(old, scene, g) ==
    PrimitiveLoop(scene, NumPrimitives(scene), g,
                  [tris |-> BuildStartTriangles(old), bounds |-> << >>])

\* bounds_[i], i zero-based
BoundsAt(bounds, i, g) ==
    IF i < Len(bounds) THEN bounds[i + 1]
    ELSE [min |-> <<g.omin, g.omin, g.omin>>, max |-> <<g.omax, g.omax, g.omax>>]

\* for (i = begin; i < end; i++) node->bound = Math::Union(node->bound, bounds_[i])
\* starting from the node's default-constructed bound.  The Unions are taken
\* over the same operands in the same left-to-right order; they are grouped
\* as a balanced tree, which on exact numbers yields the value of the loop.
RECURSIVE RangeUnion(_, _, _, _)
RangeUnion(bounds, begin, end, g) ==
    IF end - begin = 1 THEN BoundsAt(bounds, begin, g)
    ELSE LET m == begin + (end - begin) \div 2
         IN  UnionBB(RangeUnion(bounds, begin, m, g), RangeUnion(bounds, m, end, g))

RangeBound(bounds, begin, end, g) ==
    IF begin < end THEN UnionBB(BoundDefault(g), RangeUnion(bounds, begin, end, g))
    ELSE BoundDefault(g)

\* a build that splits every range of two or more triangles
IsLeafRangeSingle(begin, end) == end - begin < 2

\* a build that still makes a leaf of a range of LeafNumNodes triangles
IsLeafRangeInclusive(begin, end) == end - begin <= LeafNumNodes

\* if (end - begin < LeafNumNodes)
IsLeafRange(begin, end) == end - begin < LeafNumNodes

\* a split at the first quarter of the range
MidQuarter(begin, end) == begin + (end - begin) \div 4

\* a split at the first third of the range
MidThird(begin, end) == begin + (end - begin) \div 3

\* const int mid = begin + (end - begin) / 2
Mid(begin, end) == begin + (end - begin) \div 2

\* the lambda Build_(begin, end): appends the node, then its subtrees; yields
\* the node sequence and the index of the node built
RECURSIVE Build_(_, _, _, _, _)
Build_(nodes, begin, end, bounds, g) ==
    LET idx == Len(nodes)
        bound == RangeBound(bounds, begin, end, g)
    IN  IF IsLeafRange(begin, end)
        THEN [nodes |-> Append(nodes, [isleaf |-> TRUE, bound |-> bound,
                                       begin |-> begin, end |-> end]),
              idx |-> idx]
        ELSE LET mid == Mid(begin, end)
                 self == Append(nodes, [isleaf |-> FALSE, bound |-> bound,
                                        child1 |-> -1, child2 |-> -1])
                 r1 == Build_(self, begin, mid, bounds, g)
                 r2 == Build_(r1.nodes, mid, end, bounds, g)
             IN  [nodes |-> [r2.nodes EXCEPT ![idx + 1].child1 = r1.idx,
                                             ![idx + 1].child2 = r2.idx],
                  idx |-> idx]

\* a build that keeps the nodes of the build before
BuildStartNodesKept(old) == old

\* the node sequence Build_ starts from: nodes_.clear()
BuildStartNodes(old) == << >>

\* the value Build returns
BuildReturn(scene) == TRUE

\* a build whose tree starts at the second triangle
BuildResultSkipsFirst(oldTris, oldNodes, scene, g) ==
    LET c == CreateTriaccels(oldTris, scene, g)
    IN  [triangles |-> c.tris,
         bounds |-> c.bounds,
         nodes |-> Build_(BuildStartNodes(oldNodes), 1, Len(c.tris), c.bounds, g).nodes,
         ret |-> BuildReturn(scene)]

\* the whole of Build, as a function of the accelerator's triangle and node
\* sequences, the scene and what stray reads yield
BuildResult(oldTris, oldNodes, scene, g) ==
    LET c == CreateTriaccels(oldTris, scene, g)
    IN  [triangles |-> c.tris,
         bounds |-> c.bounds,
         nodes |-> Build_(BuildStartNodes(oldNodes), 0, Len(c.tris), c.bounds, g).nodes,
         ret |-> BuildReturn(scene)]

\* Build reads beyond the end of bounds_ or of a position array
BuildReadsOutOfRange(oldTris, scene) ==
    \/ SceneOutOfRange(scene)
    \/ Len(BuildStartTriangles(oldTris)) > 0

-----------------------------------------------------------------------------
(* Accel_BVH::Intersect *)

\* a ray with the window the caller passes
Ray(o, d, minT, maxT) == [o |-> o, d |-> d, minT |-> Num(minT), maxT |-> Num(maxT)]

\* through every wall at (y, z) = (1, 1)
RayThrough == Ray(<<-1, 1, 1>>, <<1, 0, 0>>, 0, Inf)
\* the same ray, its window opening behind the wall at x = 2
RayWindow == Ray(<<-1, 1, 1>>, <<1, 0, 0>>, 4, Inf)
\* away from the scene
RayAway == Ray(<<-1, 1, 1>>, <<-1, 0, 0>>, 0, Inf)
\* through the far end of the strips
RayFarEnd == Ray(<<-1, 3, 14>>, <<1, 0, 0>>, 0, Inf)
\* oblique, with fractional parameters
RayOblique == Ray(<<-1, 0, 1>>, <<2, 1, 0>>, 0, Inf)
\* from behind the walls, its window closing at 3
RayBehind == Ray(<<6, 2, 2>>, <<-1, 0, 0>>, 0, 3)

Rays == {RayThrough, RayWindow, RayAway, RayFarEnd, RayOblique, RayBehind}

\* the rays the parallel callers shoot
RaysMT == {RayThrough, RayFarEnd, RayBehind}

\* int minIndex; Vec2 minB; not assigned before the first hit
Uninit == -1
UninitB == <<Num(0), Num(0)>>

\* the out parameter isect before a hit has been written to it
NoIsect == [prim |-> -1, p |-> <<Num(0), Num(0), Num(0)>>, b |-> UninitB, faceIndex |-> -1]

\* ray.o + ray.d * t
PointAt(ray, t) ==
    <<FAdd(Num(ray.o[1]), FMulInt(t, ray.d[1])),
      FAdd(Num(ray.o[2]), FMulInt(t, ray.d[2])),
      FAdd(Num(ray.o[3]), FMulInt(t, ray.d[3]))>>

\* IntersectionUtils::CreateTriangleIntersection(prim, p, b, faceIndex), with
\* prim = scene->PrimitiveAt(primIndex) and p = ray.o + ray.d * maxT; the record
\* names the primitive by its index, -1 when the scene holds no such primitive
CreateTriangleIntersection(scene, tri, ray, maxT, b) ==
    [prim |-> IF tri.primIndex < NumPrimitives(scene) THEN tri.primIndex ELSE -1,
     p |-> PointAt(ray, maxT),
     b |-> b,
     faceIndex |-> tri.faceIndex]

\* a traversal that never turns away
NodePrunedNever(node, ray, minT, maxT) == FALSE

\* if (!node->bound.Intersect(ray, minT, maxT)) return false
NodePruned(node, ray, minT, maxT) == ~BoundIntersect(node.bound, ray, minT, maxT)

\* a leaf loop that tests every triangle against the window the caller passed
RECURSIVE LeafLoopWholeWindow(_, _, _, _, _, _)
LeafLoopWholeWindow(tris, begin, end, ray, minT, st) ==
    IF begin < end
    THEN LET before == LeafLoopWholeWindow(tris, begin, end - 1, ray, minT, st)
             r == TriIntersect(tris[end], ray, minT, ray.maxT)
         IN  IF r.hit THEN [hit |-> TRUE, maxT |-> r.t, minIndex |-> end - 1, minB |-> r.b]
                      ELSE before
    ELSE st

\* the loop over a leaf's triangles begin .. end-1, entered with the search
\* state st = [hit, maxT, minIndex, minB]
RECURSIVE LeafLoop(_, _, _, _, _, _)
LeafLoop(tris, begin, end, ray, minT, st) ==
    IF begin < end
    THEN LET before == LeafLoop(tris, begin, end - 1, ray, minT, st)
             r == TriIntersect(tris[end], ray, minT, before.maxT)
         IN  IF r.hit THEN [hit |-> TRUE, maxT |-> r.t, minIndex |-> end - 1, minB |-> r.b]
                      ELSE before
    ELSE st

\* the lambda Intersect_(idx) run to completion; st carries the captured
\* locals, st.hit the value returned
RECURSIVE Intersect_(_, _, _, _, _, _)
Intersect_(nodes, tris, idx, ray, minT, st) ==
    LET node == nodes[idx + 1]
    IN  IF NodePruned(node, ray, minT, st.maxT) THEN [st EXCEPT !.hit = FALSE]
        ELSE IF node.isleaf
             THEN LeafLoop(tris, node.begin, node.end, ray, minT, [st EXCEPT !.hit = FALSE])
             ELSE LET r1 == Intersect_(nodes, tris, node.child1, ray, minT, st)
                      r2 == Intersect_(nodes, tris, node.child2, ray, minT, r1)
                  IN  [r2 EXCEPT !.hit = r1.hit \/ r2.hit]

\* one whole call of Intersect, run alone
IntersectAlone(nodes, tris, scene, ray) ==
    LET r == Intersect_(nodes, tris, 0, ray, ray.minT,
                        [hit |-> FALSE, maxT |-> ray.maxT, minIndex |-> Uninit, minB |-> UninitB])
    IN  IF ~r.hit THEN [ret |-> FALSE, isect |-> NoIsect]
        ELSE [ret |-> TRUE,
              isect |-> CreateTriangleIntersection(scene, tris[r.minIndex + 1], ray, r.maxT, r.minB)]

\* a thread that is not inside Intersect
Idle ==
    [pc |-> "idle", ray |-> Ray(<<0, 0, 0>>, <<0, 0, 0>>, 0, 0), minT |-> Num(0), maxT |-> Num(0),
     minIndex |-> Uninit, minB |-> UninitB, stack |-> << >>, retval |-> FALSE,
     ret |-> FALSE, isect |-> NoIsect, tested |-> {}, visits |-> {}]

\* a window kept in one place for all callers
SearchStateShared(t) ==
    [maxT |-> th[1].maxT, minIndex |-> th[t].minIndex, minB |-> th[t].minB]

\* the search state a running call of thread t reads: its own locals (maxT by
\* value, minIndex and minB on the stack of the call)
SearchState(t) == [maxT |-> th[t].maxT, minIndex |-> th[t].minIndex, minB |-> th[t].minB]

\* a call that moves the first triangle to the back
IntersectFrameRotates ==
    /\ triangles_' = IF triangles_ = << >> THEN << >>
                     ELSE Append(Tail(triangles_), Head(triangles_))
    /\ nodes_' = nodes_

\* what a call does to the accelerator's sequences: nothing
IntersectFrame == UNCHANGED <<triangles_, nodes_>>

Frame(idx) == [idx |-> idx, stage |-> "enter", hit |-> FALSE]
Top(t) == th[t].stack[Len(th[t].stack)]
Pop(stack) == SubSeq(stack, 1, Len(stack) - 1)
SetTop(stack, f) == [stack EXCEPT ![Len(stack)] = f]

\* the call: locals declared, Intersect_(0) about to run
IntersectCall(t, ray) ==
    /\ ~crashed /\ numBuilds >= 1
    /\ th[t].pc = "idle"
    /\ th' = [th EXCEPT ![t] = [Idle EXCEPT !.pc = "run", !.ray = ray,
                                            !.minT = ray.minT, !.maxT = ray.maxT,
                                            !.stack = <<Frame(0)>>]]
    /\ IntersectFrame
    /\ UNCHANGED <<bounds_, buildRet, builtScene, numBuilds, prevAccel, crashed, calc, lg>>

\* entry of Intersect_(idx): the bound test, then the leaf loop or the descent
\* into child1
IntersectEnter(t) ==
    /\ th[t].pc = "run" /\ th[t].stack # << >> /\ Top(t).stage = "enter"
    /\ LET me == th[t]
           ss == SearchState(t)
           node == nodes_[Top(t).idx + 1]
           seen == me.visits \cup {[idx |-> Top(t).idx, maxT |-> ss.maxT]}
       IN  IF NodePruned(node, me.ray, me.minT, ss.maxT)
           THEN th' = [th EXCEPT ![t] = [me EXCEPT !.stack = Pop(me.stack), !.retval = FALSE,
                                                   !.visits = seen]]
           ELSE IF node.isleaf
                THEN LET r == LeafLoop(triangles_, node.begin, node.end, me.ray, me.minT,
                                       [hit |-> FALSE, maxT |-> ss.maxT,
                                        minIndex |-> ss.minIndex, minB |-> ss.minB])
                     IN  th' = [th EXCEPT ![t] =
                                  [me EXCEPT !.stack = Pop(me.stack), !.retval = r.hit,
                                             !.maxT = r.maxT, !.minIndex = r.minIndex,
                                             !.minB = r.minB, !.visits = seen,
                                             !.tested = me.tested \cup (node.begin .. node.end - 1)]]
                ELSE th' = [th EXCEPT ![t] =
                              [me EXCEPT !.stack = Append(SetTop(me.stack,
                                                       [Top(t) EXCEPT !.stage = "child1"]),
                                                       Frame(node.child1)),
                                         !.visits = seen]]
    /\ IntersectFrame
    /\ UNCHANGED <<bounds_, buildRet, builtScene, numBuilds, prevAccel, crashed, calc, lg>>

\* a descent that returns as soon as child1 reports a hit
IntersectAfterChildShortCircuit(t) ==
    /\ th[t].pc = "run" /\ th[t].stack # << >> /\ Top(t).stage # "enter"
    /\ LET me == th[t]
           f == Top(t)
           hit == f.hit \/ me.retval
           node == nodes_[f.idx + 1]
       IN  IF f.stage = "child1" /\ ~hit
           THEN th' = [th EXCEPT ![t] =
                         [me EXCEPT !.stack = Append(SetTop(me.stack,
                                                  [f EXCEPT !.stage = "child2", !.hit = hit]),
                                                  Frame(node.child2))]]
           ELSE th' = [th EXCEPT ![t] = [me EXCEPT !.stack = Pop(me.stack), !.retval = hit]]
    /\ IntersectFrame
    /\ UNCHANGED <<bounds_, buildRet, builtScene, numBuilds, prevAccel, crashed, calc, lg>>

\* a child call returned: hit |= its value, then child2 is called or hit returned
IntersectAfterChild(t) ==
    /\ th[t].pc = "run" /\ th[t].stack # << >> /\ Top(t).stage # "enter"
    /\ LET me == th[t]
           f == Top(t)
           hit == f.hit \/ me.retval
           node == nodes_[f.idx + 1]
       IN  IF f.stage = "child1"
           THEN th' = [th EXCEPT ![t] =
                         [me EXCEPT !.stack = Append(SetTop(me.stack,
                                                  [f EXCEPT !.stage = "child2", !.hit = hit]),
                                                  Frame(node.child2))]]
           ELSE th' = [th EXCEPT ![t] = [me EXCEPT !.stack = Pop(me.stack), !.retval = hit]]
    /\ IntersectFrame
    /\ UNCHANGED <<bounds_, buildRet, builtScene, numBuilds, prevAccel, crashed, calc, lg>>

\* a return that evaluates the position of the record on a miss as well
IntersectReturnFillsOnMiss(t) ==
    /\ th[t].pc = "run" /\ th[t].stack = << >>
    /\ LET me == th[t]
           ss == SearchState(t)
       IN  IF ~me.retval
           THEN th' = [th EXCEPT ![t] = [me EXCEPT !.pc = "done", !.ret = FALSE,
                                                   !.isect = [NoIsect EXCEPT
                                                       !.p = PointAt(me.ray, ss.maxT)]]]
           ELSE th' = [th EXCEPT ![t] =
                         [me EXCEPT !.pc = "done", !.ret = TRUE,
                                    !.isect = CreateTriangleIntersection(builtScene,
                                                  triangles_[ss.minIndex + 1], me.ray,
                                                  ss.maxT, ss.minB)]]
    /\ IntersectFrame
    /\ UNCHANGED <<bounds_, buildRet, builtScene, numBuilds, prevAccel, crashed, calc, lg>>

\* Intersect_(0) returned: false is passed on, a hit builds the record
IntersectReturn(t) ==
    /\ th[t].pc = "run" /\ th[t].stack = << >>
    /\ LET me == th[t]
           ss == SearchState(t)
       IN  IF ~me.retval
           THEN th' = [th EXCEPT ![t] = [me EXCEPT !.pc = "done", !.ret = FALSE]]
           ELSE th' = [th EXCEPT ![t] =
                         [me EXCEPT !.pc = "done", !.ret = TRUE,
                                    !.isect = CreateTriangleIntersection(builtScene,
                                                  triangles_[ss.minIndex + 1], me.ray,
                                                  ss.maxT, ss.minB)]]
    /\ IntersectFrame
    /\ UNCHANGED <<bounds_, buildRet, builtScene, numBuilds, prevAccel, crashed, calc, lg>>

\* the caller has taken the result
IntersectDone(t) ==
    /\ th[t].pc = "done"
    /\ th' = [th EXCEPT ![t] = Idle]
    /\ UNCHANGED <<triangles_, nodes_, bounds_, buildRet, builtScene, numBuilds, prevAccel, crashed,
                 calc, lg>>

-----------------------------------------------------------------------------
(* The accelerator as a state machine *)

\* no call of the math layer has been made
NoCalc == [op |-> "none"]

\* the threads that call Logger::Instance
NCallers == 3

\* the static members and the members of a LoggerImpl before anything is
\* called: instance null, work constructed over io, ioThread not joinable,
\* Indentation = 0, IndentationString empty, prevMessageIsInplace = false.
\* Kept beside them: the calls made so far (runs, posts, for each post the
\* Run/Stop cycle it was made in, 0 outside any), the handlers executed (done),
\* what was written to std::cout (out), and what the last Stop did
LoggerInit ==
    [instance |-> 0, made |-> << >>, mutex |-> 0,
     ipc |-> [t \in 1..NCallers |-> "idle"],
     p |-> [t \in 1..NCallers |-> 0],
     got |-> [t \in 1..NCallers |-> 0],
     work |-> TRUE, stopped |-> FALSE, queue |-> << >>,
     ioThread |-> "none", inStop |-> FALSE, lastStop |-> "none", runs |-> 0, posts |-> 0,
     postRun |-> << >>, done |-> << >>,
     Indentation |-> 0, IndentationString |-> << >>, prevMessageIsInplace |-> FALSE,
     out |-> << >>]

Init ==
    /\ calc = NoCalc
    /\ lg = LoggerInit
    /\ triangles_ = << >>
    /\ nodes_ = << >>
    /\ bounds_ = << >>
    /\ buildRet = FALSE
    /\ builtScene = << >>
    /\ numBuilds = 0
    /\ prevAccel = [triangles |-> << >>, nodes |-> << >>, scene |-> << >>]
    /\ crashed = FALSE
    /\ th = [t \in 1..NThreads |-> Idle]

NoQueryInFlight == \A t \in 1..NThreads : th[t].pc = "idle"

\* Build(scene) runs to completion while no query is in flight; g is what the
\* stray reads of this call yield
Build(scene, g) ==
    /\ ~crashed /\ numBuilds < MaxBuilds /\ NoQueryInFlight
    /\ LET r == BuildResult(triangles_, nodes_, scene, g)
       IN  /\ triangles_' = r.triangles
           /\ nodes_' = r.nodes
           /\ bounds_' = r.bounds
           /\ buildRet' = r.ret
    /\ builtScene' = scene
    /\ numBuilds' = numBuilds + 1
    /\ prevAccel' = [triangles |-> triangles_, nodes |-> nodes_, scene |-> builtScene]
    /\ UNCHANGED <<crashed, th, calc, lg>>

\* a read beyond the end of bounds_ or of a position array ends the process
\* inside Build (checked iterators, a guard page)
BuildFault(scene) ==
    /\ ~crashed /\ numBuilds < MaxBuilds /\ NoQueryInFlight
    /\ BuildReadsOutOfRange(triangles_, scene)
    /\ crashed' = TRUE
    /\ builtScene' = scene
    /\ prevAccel' = [triangles |-> triangles_, nodes |-> nodes_, scene |-> builtScene]
    /\ UNCHANGED <<triangles_, nodes_, bounds_, buildRet, numBuilds, th, calc, lg>>

\* the reference design: one thread builds and queries
MainThread == {1}

Next ==
    \/ \E scene \in Scenes, g \in Garbage : Build(scene, g)
    \/ \E scene \in Scenes : BuildFault(scene)
    \/ \E t \in MainThread, ray \in Rays : IntersectCall(t, ray)
    \/ \E t \in MainThread : IntersectEnter(t)
    \/ \E t \in MainThread : IntersectAfterChild(t)
    \/ \E t \in MainThread : IntersectReturn(t)
    \/ \E t \in MainThread : IntersectDone(t)

Spec == Init /\ [][Next]_vars

\* the caller's parallel use: after Build has returned, several threads query
AllThreads == 1..NThreads

NextMT ==
    \/ \E scene \in Scenes, g \in Garbage : numBuilds = 0 /\ Build(scene, g)
    \/ \E scene \in Scenes : numBuilds = 0 /\ BuildFault(scene)
    \/ \E t \in AllThreads, ray \in RaysMT : IntersectCall(t, ray)
    \/ \E t \in AllThreads : IntersectEnter(t)
    \/ \E t \in AllThreads : IntersectAfterChild(t)
    \/ \E t \in AllThreads : IntersectReturn(t)
    \/ \E t \in AllThreads : IntersectDone(t)

SpecMT == Init /\ [][NextMT]_vars

-----------------------------------------------------------------------------
(* The math layer on its own: operands are drawn first, then one operation  *)
(* of math.h or bound.h is applied to them by both implementations.         *)

\* the smallest power of two whose successor is not a Float
Big == Pow2(MantissaBits)

\* Vec4 operands; the first three components double as Vec3 operands
Vecs == { <<1, 1, 1, 1>>, <<Big, 0, 1, 1>>, <<0, 2, 3, 0>>, <<-1, 3, -2, 1>> }

\* a matrix with entries of different magnitude in one row
MatDense == <<(<<Big, 1, 0, 0>>), (<<0, 1, 3, 0>>), (<<1, 2, 1, 0>>), (<<1, 1, 1, 1>>)>>

\* Mat4 operands, column by column
Mats == { Mat4Identity, Translate(<<1, 2, 3>>), MatDense }

\* what the padding lanes of the two Vec3 operands hold: 1 after
\* TVec3(x, y, z), anything after TVec3(std::initializer_list), which assigns
\* x, y and z only
Pads == { <<1, 1>>, <<5, 0>> }

\* TVec3<T, SIMD::None>(x, y, z)
V3(v) == <<v[1], v[2], v[3]>>

\* the register of a TVec3<float, SIMD::SSE> / TVec3<double, SIMD::AVX>
Padded(v, pad) == <<v[1], v[2], v[3], pad>>

\* TMat3: three Vec3 columns
M3(m) == <<V3(m[1]), V3(m[2]), V3(m[3])>>
M3Padded(m, pad) == <<Padded(m[1], pad), Padded(m[2], pad), Padded(m[3], pad)>>

\* a Bound holding two points
Box(p, q) == [min |-> Min3(p, q), max |-> Max3(p, q)]

InitMath ==
    /\ triangles_ = << >> /\ nodes_ = << >> /\ bounds_ = << >>
    /\ buildRet = FALSE /\ builtScene = << >> /\ numBuilds = 0
    /\ prevAccel = [triangles |-> << >>, nodes |-> << >>, scene |-> << >>]
    /\ crashed = FALSE
    /\ th = [t \in 1..NThreads |-> Idle]
    /\ lg = LoggerInit
    /\ calc \in { [op |-> "input", x |-> x, y |-> y, z |-> z, m |-> m, pad |-> pad, g |-> g,
                   out |-> << >>] :
                  x \in Vecs, y \in Vecs, z \in Vecs, m \in Mats, pad \in Pads, g \in Garbage }

AccelUntouched ==
    UNCHANGED <<triangles_, nodes_, bounds_, buildRet, builtScene, numBuilds, prevAccel,
                crashed, th, lg>>

\* x op y on Vec3 and on Vec4, by both implementations
VecArith(op) ==
    /\ calc.op = "input"
    /\ calc' = [calc EXCEPT !.op = op, !.out =
                  [n3 |-> VecOpNone(op, V3(calc.x), V3(calc.y)),
                   s3 |-> VecOpSIMD(op, Padded(calc.x, calc.pad[1]), Padded(calc.y, calc.pad[2])),
                   n4 |-> VecOpNone(op, calc.x, calc.y),
                   s4 |-> VecOpSIMD(op, calc.x, calc.y)]]
    /\ AccelUntouched

\* Math::Dot(x, y) on Vec3 and on Vec4, by the three implementations
VecDot ==
    /\ calc.op = "input"
    /\ LET x3 == Padded(calc.x, calc.pad[1])
           y3 == Padded(calc.y, calc.pad[2])
       IN  calc' = [calc EXCEPT !.op = "dot", !.out =
                      [n3 |-> Dot3None(V3(calc.x), V3(calc.y)),
                       sse3 |-> Dot3SSE(x3, y3),
                       avx3 |-> Dot3AVX(x3, y3),
                       n4 |-> Dot4None(calc.x, calc.y),
                       sse4 |-> Dot4SSE(calc.x, calc.y),
                       avx4 |-> Dot4AVX(calc.x, calc.y)]]
    /\ AccelUntouched

\* m * y for Mat3 * Vec3 and Mat4 * Vec4, by both implementations
MatVec ==
    /\ calc.op = "input"
    /\ calc' = [calc EXCEPT !.op = "matvec", !.out =
                  [n3 |-> Mat3MulVec3None(M3(calc.m), V3(calc.y)),
                   s3 |-> Mat3MulVec3SIMD(M3Padded(calc.m, calc.pad[1]),
                                          Padded(calc.y, calc.pad[2])),
                   n4 |-> Mat4MulVec4None(calc.m, calc.y),
                   s4 |-> Mat4MulVec4SIMD(calc.m, calc.y)]]
    /\ AccelUntouched

\* Math::Translate(x) applied to y as a point (w = 1) and as a direction (w = 0)
TranslateVec ==
    /\ calc.op = "input"
    /\ LET t == Translate(V3(calc.x))
       IN  calc' = [calc EXCEPT !.op = "translate", !.out =
                      [point |-> Mat4MulVec4(t, <<calc.y[1], calc.y[2], calc.y[3], 1>>),
                       dir |-> Mat4MulVec4(t, <<calc.y[1], calc.y[2], calc.y[3], 0>>)]]
    /\ AccelUntouched

\* the triangle Build creates for the face (y, z, origin) of a primitive whose
\* transform is Math::Translate(x)
BuildVertex ==
    /\ calc.op = "input"
    /\ LET mesh == Mesh(V3(calc.y) \o V3(calc.z) \o <<0, 0, 0>>, <<0, 1, 2>>)
           scene == <<Primitive(mesh, Translate(V3(calc.x)))>>
       IN  calc' = [calc EXCEPT !.op = "vertex", !.out = CreateTriaccel(scene, 0, 0, calc.g)]
    /\ AccelUntouched

\* Math::Union over the boxes A = Box(x, y), B = Box(y, z), the point z and a
\* default-constructed Bound, in several orders
UnionBounds ==
    /\ calc.op = "input"
    /\ LET A == Box(V3(calc.x), V3(calc.y))
           B == Box(V3(calc.y), V3(calc.z))
           C == Box(V3(calc.z), V3(calc.z))
           E == BoundDefault(calc.g)
       IN  calc' = [calc EXCEPT !.op = "union", !.out =
                      [ab |-> UnionBB(A, B), ba |-> UnionBB(B, A),
                       ab_c |-> UnionBB(UnionBB(A, B), C),
                       a_bc |-> UnionBB(A, UnionBB(B, C)),
                       ea |-> UnionBB(E, A), ae |-> UnionBB(A, E),
                       fold1 |-> UnionBP(UnionBB(UnionBB(E, A), B), V3(calc.z)),
                       fold2 |-> UnionBB(UnionBB(UnionBP(E, V3(calc.z)), B), A)]]
    /\ AccelUntouched

\* Mat3::Identity() times the vector y, and times the matrix M3(m) from both sides
IdentityProducts ==
    /\ calc.op = "input"
    /\ calc' = [calc EXCEPT !.op = "identity", !.out =
                  [iv |-> Mat3MulVec3None(Mat3Identity, V3(calc.y)),
                   im |-> Mat3MulMat3(Mat3Identity, M3(calc.m)),
                   mi |-> Mat3MulMat3(M3(calc.m), Mat3Identity)]]
    /\ AccelUntouched

NextMath ==
    \/ \E op \in {"+", "-", "*", "/"} : VecArith(op)
    \/ IdentityProducts
    \/ VecDot
    \/ MatVec
    \/ TranslateVec
    \/ BuildVertex
    \/ UnionBounds

SpecMath == InitMath /\ [][NextMath]_vars

-----------------------------------------------------------------------------
(* Notions the properties are stated in, defined without the operators of   *)
(* Build and Intersect                                                      *)

Least(a, b, c) == IF a <= b /\ a <= c THEN a ELSE IF b <= c THEN b ELSE c
Greatest(a, b, c) == IF a >= b /\ a >= c THEN a ELSE IF b >= c THEN b ELSE c

\* the smallest box around the three vertices of a triangle
TightBound(tri) ==
    [min |-> <<Least(tri.p1[1], tri.p2[1], tri.p3[1]), Least(tri.p1[2], tri.p2[2], tri.p3[2]),
               Least(tri.p1[3], tri.p2[3], tri.p3[3])>>,
     max |-> <<Greatest(tri.p1[1], tri.p2[1], tri.p3[1]), Greatest(tri.p1[2], tri.p2[2], tri.p3[2]),
               Greatest(tri.p1[3], tri.p2[3], tri.p3[3])>>]

\* that box moved outward by Eps on both sides of every axis
PaddedBound(tri) ==
    LET b == TightBound(tri)
    IN  [min |-> <<b.min[1] - Eps, b.min[2] - Eps, b.min[3] - Eps>>,
         max |-> <<b.max[1] + Eps, b.max[2] + Eps, b.max[3] + Eps>>]

\* the nodes of the subtree rooted at node n (zero-based indices)
RECURSIVE SubtreeNodes(_, _)
SubtreeNodes(nodes, n) ==
    IF nodes[n + 1].isleaf THEN {n}
    ELSE {n} \cup SubtreeNodes(nodes, nodes[n + 1].child1)
             \cup SubtreeNodes(nodes, nodes[n + 1].child2)

\* the triangle indices stored in the leaves beneath node n
SubtreeTriangles(nodes, n) ==
    UNION { nodes[m + 1].begin .. nodes[m + 1].end - 1 :
              m \in {k \in SubtreeNodes(nodes, n) : nodes[k + 1].isleaf} }

\* the number of faces of the primitives before primitive i (zero-based)
FacesBefore(scene, i) == TotalFaces(SubSeq(scene, 1, i))

\* the number of nodes of the tree over n triangles
RECURSIVE NodeCount(_)
NodeCount(n) ==
    IF n < LeafNumNodes THEN 1 ELSE 1 + NodeCount(n \div 2) + NodeCount(n - n \div 2)

\* the triangles the most recent Build appended
Appended == SubSeq(triangles_, Len(prevAccel.triangles) + 1, Len(triangles_))

\* the most recent Build has returned
Built == numBuilds >= 1 /\ ~crashed

\* what a caller observes of a call
Observed(r) == [ret |-> r.ret, prim |-> r.isect.prim, faceIndex |-> r.isect.faceIndex,
                p |-> r.isect.p]

-----------------------------------------------------------------------------
(* Properties *)

\* C1: whenever a call of Intersect has returned, it returned true iff some
\* triangle of the scene is hit by the ray inside the window [minT, maxT], and
\* the record then names a triangle whose parameter t is the smallest among
\* all triangles hit, at the point ray.o + ray.d * t.
C1_NearestHit ==
    \A t \in 1..NThreads :
        th[t].pc = "done" =>
            LET ray == th[t].ray
                H(k) == TriIntersect(Appended[k], ray, ray.minT, ray.maxT)
                cand == {k \in 1..Len(Appended) : H(k).hit}
            IN  /\ th[t].ret <=> cand # {}
                /\ th[t].ret =>
                       \E k \in cand :
                           /\ \A j \in cand : FLe(H(k).t, H(j).t)
                           /\ th[t].isect.prim = Appended[k].primIndex
                           /\ th[t].isect.faceIndex = Appended[k].faceIndex
                           /\ th[t].isect.p = PointAt(ray, H(k).t)

\* C2: after Build has returned, the bound of every node encloses the padded
\* bound of every triangle stored in a leaf beneath that node.
C2_NodeBoundEncloses ==
    Built =>
        \A n \in 0..Len(nodes_) - 1 :
            \A i \in SubtreeTriangles(nodes_, n) :
                Encloses(nodes_[n + 1].bound, PaddedBound(triangles_[i + 1]))

\* C3: after any sequence of Builds the triangle sequence holds exactly one
\* triangle per face of the scene of the most recent Build, and the node
\* sequence is the tree over just those triangles.
C3_RebuildDiscards ==
    Built =>
        /\ Len(triangles_) = TotalFaces(builtScene)
        /\ \A i \in 0..NumPrimitives(builtScene) - 1 :
               \A j \in 0..NumFacesOf(PrimitiveAt(builtScene, i)) - 1 :
                   Cardinality({k \in 1..Len(triangles_) :
                                   /\ triangles_[k].primIndex = i
                                   /\ triangles_[k].faceIndex = j}) = 1
        /\ Len(nodes_) = NodeCount(TotalFaces(builtScene))
        /\ SubtreeTriangles(nodes_, 0) = 0..TotalFaces(builtScene) - 1

\* C4: a second Build on the (well-formed) scene of the Build before it
\* returns, and every ray then gets the same answer, triangle and point as
\* before it.
C4_BuildIdempotent ==
    (prevAccel.nodes # << >> /\ prevAccel.scene = builtScene
        /\ ~SceneOutOfRange(builtScene)) =>
        /\ ~crashed
        /\ \A ray \in Rays :
               Observed(IntersectAlone(nodes_, triangles_, builtScene, ray))
                   = Observed(IntersectAlone(prevAccel.nodes, prevAccel.triangles,
                                             builtScene, ray))

\* C5: Build returns false iff some face of the scene names a vertex outside
\* its mesh's position array.
C5_BuildFailsOnBadIndex ==
    Built => (buildRet <=> ~SceneOutOfRange(builtScene))

\* C6: after a Build of a scene without faces the node sequence is the single
\* leaf [0, 0) and every call of Intersect returns false.
C6_EmptyBuild ==
    (Built /\ TotalFaces(builtScene) = 0) =>
        /\ Len(nodes_) = 1
        /\ nodes_[1].isleaf /\ nodes_[1].begin = 0 /\ nodes_[1].end = 0
        /\ \A ray \in Rays : ~IntersectAlone(nodes_, triangles_, builtScene, ray).ret

\* C7: a step of Intersect, on the way to a hit or to a miss, leaves the
\* triangle sequence and the node sequence as they were.
C7_IntersectReadOnly ==
    [][th' # th => (triangles_' = triangles_ /\ nodes_' = nodes_)]_vars

\* a call has walked a tree with inner nodes and returned a hit
C7_Witness ==
    \E t \in 1..NThreads :
        /\ th[t].pc = "done" /\ th[t].ret
        /\ Len(nodes_) > 1 /\ Cardinality(th[t].visits) > 1

\* C8: with several threads inside Intersect at once, every call returns what
\* the same call returns when it runs alone on the same accelerator.
C8_ConcurrentAsAlone ==
    \A t \in 1..NThreads :
        th[t].pc = "done" =>
            [ret |-> th[t].ret, isect |-> th[t].isect]
                = IntersectAlone(nodes_, triangles_, builtScene, th[t].ray)

\* two calls with different rays are in flight, both past a recorded hit,
\* with different windows
C8_Witness ==
    /\ th[1].pc = "run" /\ th[2].pc = "run"
    /\ th[1].ray # th[2].ray
    /\ th[1].minIndex # Uninit /\ th[2].minIndex # Uninit
    /\ th[1].maxT # th[2].maxT
    /\ th[1].stack # << >> /\ th[2].stack # << >>

\* the bound of visited node v was missed in the window of the visit
Missed(t, v) == ~BoundIntersect(nodes_[v.idx + 1].bound, th[t].ray, th[t].minT, v.maxT)

\* C9: a node whose bound the ray misses is left at once: no node beneath it
\* is visited and no triangle beneath it is tested; a miss of the root bound
\* tests nothing and returns false; every tested triangle lies in a leaf
\* whose bound, and the bound of every ancestor, the ray entered.
C9_Pruning ==
    \A t \in 1..NThreads :
        th[t].pc # "idle" =>
            /\ \A v \in th[t].visits :
                   Missed(t, v) =>
                       /\ \A w \in th[t].visits :
                              w.idx \in SubtreeNodes(nodes_, v.idx) => w.idx = v.idx
                       /\ SubtreeTriangles(nodes_, v.idx) \cap th[t].tested = {}
            /\ (\E v \in th[t].visits : v.idx = 0 /\ Missed(t, v)) =>
                   /\ th[t].tested = {}
                   /\ th[t].pc = "done" => ~th[t].ret
            /\ \A i \in th[t].tested :
                   \A n \in 0..Len(nodes_) - 1 :
                       i \in SubtreeTriangles(nodes_, n) =>
                           \E v \in th[t].visits : v.idx = n /\ ~Missed(t, v)

\* a call entered the root, was turned away at an inner node or leaf, and
\* tested triangles elsewhere
C9_Witness ==
    \E t \in 1..NThreads :
        /\ th[t].pc = "done"
        /\ \E v \in th[t].visits : v.idx # 0 /\ Missed(t, v)
        /\ th[t].tested # {}

\* C10: Build returns true on a scene with primitives that have no mesh; such
\* a primitive adds no triangle, and the triangles added for face j of
\* primitive i carry primIndex = i, the position of that primitive in the
\* scene, and the vertices of that primitive (moved by its translation).
C10_AbsentMeshSkipped ==
    (Built /\ ~SceneOutOfRange(builtScene)) =>
        /\ buildRet
        /\ Len(Appended) = TotalFaces(builtScene)
        /\ \A i \in 0..NumPrimitives(builtScene) - 1 :
               LET prim == PrimitiveAt(builtScene, i)
               IN  \A j \in 0..NumFacesOf(prim) - 1 :
                       LET tri == Appended[FacesBefore(builtScene, i) + j + 1]
                           v1 == prim.mesh.faces[3 * j + 1]
                       IN  /\ tri.primIndex = i
                           /\ tri.faceIndex = j
                           /\ tri.p1 = <<prim.mesh.positions[3 * v1 + 1] + prim.transform[4][1],
                                         prim.mesh.positions[3 * v1 + 2] + prim.transform[4][2],
                                         prim.mesh.positions[3 * v1 + 3] + prim.transform[4][3]>>

\* a scene whose second primitive has no mesh was built; its third primitive
\* has a triangle
C10_Witness ==
    /\ Built
    /\ NumPrimitives(builtScene) = 3
    /\ PrimitiveAt(builtScene, 1).mesh.null
    /\ \E k \in 1..Len(Appended) : Appended[k].primIndex = 2

\* C11: after the first Build of an accelerator the triangle sequence holds
\* one triangle per face of the primitives that have a mesh, ordered by
\* primitive index and then by face index: the triangle at position k names a
\* primitive of the scene that has a mesh and a face of that mesh, and k is
\* the number of faces that precede that face in the scene.
C11_OneTrianglePerFace ==
    (Built /\ numBuilds = 1) =>
        /\ Len(triangles_) = TotalFaces(builtScene)
        /\ \A k \in 1..Len(triangles_) :
               LET tri == triangles_[k]
               IN  /\ tri.primIndex \in 0..NumPrimitives(builtScene) - 1
                   /\ ~PrimitiveAt(builtScene, tri.primIndex).mesh.null
                   /\ tri.faceIndex \in
                          0..PrimitiveAt(builtScene, tri.primIndex).mesh.numFaces - 1
                   /\ k = FacesBefore(builtScene, tri.primIndex) + tri.faceIndex + 1

\* a first Build over two meshes of several faces each, with a primitive
\* without a mesh between them
C11_Witness ==
    /\ Built /\ numBuilds = 1
    /\ Len(triangles_) = 20
    /\ triangles_[10].primIndex = 0 /\ triangles_[10].faceIndex = 9
    /\ triangles_[11].primIndex = 2 /\ triangles_[11].faceIndex = 0

\* C12: the bound Build stores for a triangle of a well-formed scene is the
\* smallest box around the triangle's three vertices, moved outward by exactly Eps on both sides of
\* every axis (so the bound before the expansion is exactly the union of the
\* three vertices).
C12_TriangleBound ==
    (Built /\ ~SceneOutOfRange(builtScene)) =>
        /\ Len(bounds_) = Len(Appended)
        /\ \A k \in 1..Len(bounds_) :
               /\ bounds_[k] = PaddedBound(Appended[k])
               /\ \A g \in Garbage : VertexBound(Appended[k], g) = TightBound(Appended[k])

\* C13: Union does not depend on the order of its operands or of a fold:
\* Union(A, B) = Union(B, A), Union(Union(A, B), C) = Union(A, Union(B, C)), a
\* default-constructed Bound is neutral on either side, and a fold that starts
\* from a default-constructed Bound yields, in every order, the smallest box
\* around all the points.
C13_UnionOrderIndependent ==
    calc.op = "union" =>
        LET A == Box(V3(calc.x), V3(calc.y))
            smallest == TightBound([p1 |-> V3(calc.x), p2 |-> V3(calc.y), p3 |-> V3(calc.z)])
        IN  /\ calc.out.ab = calc.out.ba
            /\ calc.out.ab_c = calc.out.a_bc
            /\ calc.out.ea = A /\ calc.out.ae = A
            /\ calc.out.fold1 = smallest /\ calc.out.fold2 = smallest

\* the first three components of a register are the components of a Vec3
Same3(s, n) == <<s[1], s[2], s[3]>> = n

WithinRounding(r, a, b) ==
    LET e == a[1] * b[1] + a[2] * b[2] + a[3] * b[3] + a[4] * b[4]
        mag == Abs(a[1] * b[1]) + Abs(a[2] * b[2]) + Abs(a[3] * b[3]) + Abs(a[4] * b[4])
    IN  Abs(r - e) * (Pow2(MantissaBits) - 4) <= 4 * mag

\* row r of a Mat4
Row(m, r) == <<m[1][r], m[2][r], m[3][r], m[4][r]>>

C15_TranslatePoint ==
    /\ calc.op = "translate" =>
           /\ calc.out.point = <<calc.y[1] + calc.x[1], calc.y[2] + calc.x[2],
                                 calc.y[3] + calc.x[3], 1>>
           /\ calc.out.dir = <<calc.y[1], calc.y[2], calc.y[3], 0>>
    /\ calc.op = "vertex" =>
           /\ calc.out.p1 = <<calc.y[1] + calc.x[1], calc.y[2] + calc.x[2], calc.y[3] + calc.x[3]>>
           /\ calc.out.p2 = <<calc.z[1] + calc.x[1], calc.z[2] + calc.x[2], calc.z[3] + calc.x[3]>>
           /\ calc.out.p3 = V3(calc.x)

\* a point was moved by an offset with three different components
C15_Witness ==
    /\ calc.op = "translate"
    /\ calc.x = <<-1, 3, -2, 1>>
    /\ calc.out.point # <<calc.y[1], calc.y[2], calc.y[3], 1>>
    /\ calc.out.dir # calc.out.point

-----------------------------------------------------------------------------
(* Depth of the tree *)

\* the number of Build_ (and Intersect_) calls nested below the call for node n
RECURSIVE TreeDepth(_, _)
TreeDepth(nodes, n) ==
    IF nodes[n + 1].isleaf THEN 0
    ELSE 1 + MaxS(TreeDepth(nodes, nodes[n + 1].child1),
                  TreeDepth(nodes, nodes[n + 1].child2))

\* max(0, ceil(log2(n / k))): the least d >= 0 with k * 2^d >= n
CeilLog2Ratio(n, k) ==
    CHOOSE d \in 0..BitLen(n) :
        /\ k * Pow2(d) >= n
        /\ \A e \in 0..(d - 1) : k * Pow2(e) < n

\* the calls of Intersect_ nested at this moment, the outermost not counted
NestedCalls(t) == Len(th[t].stack) - 1

\* C16 as stated: the depth of the tree built over N = triangles_.size()
\* triangles, and with it the nesting of Intersect_, is at most
\* max(0, ceil(log2(N / 10)))
C16_DepthLogOfTenth ==
    Built =>
        /\ TreeDepth(nodes_, 0) <= CeilLog2Ratio(Len(triangles_), LeafNumNodes)
        /\ \A t \in 1..NThreads :
               th[t].pc = "run" /\ th[t].stack # << >> =>
                   NestedCalls(t) <= CeilLog2Ratio(Len(triangles_), LeafNumNodes)

\* C16 amended: a range is split as long as it holds 10 triangles or more, so
\* a leaf holds at most 9 and the depth of the tree built over N triangles is
\* exactly max(0, ceil(log2(N / 9))); the nesting of Intersect_ never exceeds it
C16_DepthLogOfNinth ==
    Built =>
        /\ TreeDepth(nodes_, 0) = CeilLog2Ratio(Len(triangles_), LeafNumNodes - 1)
        /\ \A t \in 1..NThreads :
               th[t].pc = "run" /\ th[t].stack # << >> =>
                   NestedCalls(t) <= CeilLog2Ratio(Len(triangles_), LeafNumNodes - 1)

\* a tree over 20 triangles, two levels below the root, a query at the bottom
C16_Witness ==
    /\ Built /\ Len(triangles_) = 2 * LeafNumNodes
    /\ TreeDepth(nodes_, 0) = 2
    /\ CeilLog2Ratio(Len(triangles_), LeafNumNodes) = 1
    /\ \E t \in 1..NThreads : th[t].pc = "run" /\ th[t].stack # << >> /\ NestedCalls(t) = 2

-----------------------------------------------------------------------------
(* The search window *)

\* the step thread t is about to take runs the loop of a leaf
AtLeaf(t) ==
    /\ th[t].pc = "run" /\ th[t].stack # << >> /\ Top(t).stage = "enter"
    /\ nodes_[Top(t).idx + 1].isleaf
    /\ ~NodePruned(nodes_[Top(t).idx + 1], th[t].ray, th[t].minT, th[t].maxT)

\* maxT, minIndex and minB after the first k iterations of that loop
LeafTrace(t, k) ==
    LET node == nodes_[Top(t).idx + 1]
        r == LeafLoop(triangles_, node.begin, node.begin + k, th[t].ray, th[t].minT,
                      [hit |-> FALSE, maxT |-> th[t].maxT,
                       minIndex |-> th[t].minIndex, minB |-> th[t].minB])
    IN  [maxT |-> r.maxT, minIndex |-> r.minIndex, minB |-> r.minB]

\* the parameter at which the ray meets triangle i, whatever the window
MeetsAt(t, i) == TriIntersect(triangles_[i + 1], th[t].ray, Num(-Inf), Num(Inf))

\* one iteration, over triangle i: a hit inside [minT, maxT] becomes the best
\* and closes the window at its t; anything else leaves the best as it was
OneIteration(t, i, before, after) ==
    LET r == MeetsAt(t, i)
    IN  /\ FLe(after.maxT, before.maxT)
        /\ IF r.hit /\ FLe(th[t].minT, r.t) /\ FLe(r.t, before.maxT)
           THEN after = [maxT |-> r.t, minIndex |-> i, minB |-> r.b]
           ELSE after = before

\* C17: within one Intersect call a hit is recorded only when its t lies in the
\* current [minT, maxT], recording sets maxT to that t, maxT never increases,
\* and a later, farther hit never replaces a recorded closer one
C17_WindowOnlyShrinks ==
    [][\A t \in 1..NThreads :
         th[t].pc = "run" /\ th'[t].pc # "idle" =>
             /\ th'[t].minT = th[t].minT
             /\ FLe(th'[t].maxT, th[t].maxT)
             /\ IF AtLeaf(t) /\ th'[t] # th[t]
                THEN LET node == nodes_[Top(t).idx + 1]
                         n == node.end - node.begin
                     IN  /\ \A k \in 1..n :
                                OneIteration(t, node.begin + k - 1,
                                             LeafTrace(t, k - 1), LeafTrace(t, k))
                         /\ LeafTrace(t, 0) = SearchState(t)
                         /\ LeafTrace(t, n) = [maxT |-> th'[t].maxT,
                                               minIndex |-> th'[t].minIndex,
                                               minB |-> th'[t].minB]
                ELSE /\ th'[t].maxT = th[t].maxT
                     /\ th'[t].minIndex = th[t].minIndex
                     /\ th'[t].minB = th[t].minB]_vars

\* a closer hit is recorded, and a triangle tested after it is met farther away
C17_Witness ==
    \E t \in 1..NThreads :
        /\ th[t].pc = "run" /\ th[t].minIndex # Uninit
        /\ FLt(th[t].maxT, th[t].ray.maxT)
        /\ \E i \in th[t].tested :
               /\ i > th[t].minIndex
               /\ MeetsAt(t, i).hit
               /\ FLt(th[t].maxT, MeetsAt(t, i).t)
               /\ FLe(MeetsAt(t, i).t, th[t].ray.maxT)

-----------------------------------------------------------------------------
(* Reconstruction of the hit *)

\* C18: the record is constructed at most once per Intersect call: only in the
\* step after Intersect_(0) has returned true, from the best triangle that is
\* final then; nothing is constructed during the traversal (so never for a
\* candidate that a closer hit supersedes) and nothing on a miss
C18_RecordOnlyForConfirmedHit ==
    [][\A t \in 1..NThreads :
         /\ th'[t].isect # th[t].isect /\ th'[t].pc # "idle" =>
                /\ th[t].pc = "run" /\ th[t].stack = << >> /\ th[t].retval
                /\ th[t].isect = NoIsect
                /\ th'[t].pc = "done" /\ th'[t].ret
                /\ th'[t].isect = CreateTriangleIntersection(builtScene,
                                      triangles_[th[t].minIndex + 1], th[t].ray,
                                      th[t].maxT, th[t].minB)
         /\ th'[t].pc = "run" => th'[t].isect = NoIsect
         /\ th'[t].pc = "done" /\ ~th'[t].ret => th'[t].isect = NoIsect]_vars

\* a call has returned its record, and a triangle tested before the best one
\* was a candidate in the window that the best one superseded
C18_Witness ==
    \E t \in 1..NThreads :
        /\ th[t].pc = "done" /\ th[t].ret /\ th[t].isect # NoIsect
        /\ \E i \in th[t].tested :
               /\ i < th[t].minIndex
               /\ MeetsAt(t, i).hit
               /\ FLe(th[t].minT, MeetsAt(t, i).t)
               /\ FLt(th[t].maxT, MeetsAt(t, i).t)
               /\ FLe(MeetsAt(t, i).t, th[t].ray.maxT)

-----------------------------------------------------------------------------
(* The returned record *)

\* C19: when Intersect returns true the recorded triangle index is a valid
\* index into triangles_, and the record holds the position ray.o + ray.d * maxT
\* for the final maxT, the recorded barycentrics, a primitive of the scene
\* (the one at the triangle's primIndex) and the triangle's faceIndex
C19_RecordFromBestTriangle ==
    \A t \in 1..NThreads :
        th[t].pc = "done" /\ th[t].ret =>
            /\ th[t].minIndex \in 0..(Len(triangles_) - 1)
            /\ LET tri == triangles_[th[t].minIndex + 1]
               IN  /\ th[t].isect.p = PointAt(th[t].ray, th[t].maxT)
                   /\ th[t].isect.b = th[t].minB
                   /\ th[t].isect.faceIndex = tri.faceIndex
                   /\ th[t].isect.prim = tri.primIndex
                   /\ th[t].isect.prim \in 0..(NumPrimitives(builtScene) - 1)
                   /\ PrimitiveHasMesh(PrimitiveAt(builtScene, th[t].isect.prim))
                   /\ th[t].isect.faceIndex \in
                          0..(NumFacesOf(PrimitiveAt(builtScene, th[t].isect.prim)) - 1)

-----------------------------------------------------------------------------
(* The node sequence as a tree *)

\* the internal nodes that name node n as a child, with multiplicity
ParentLinks(nodes, n) ==
    { <<p, c>> \in (0..(Len(nodes) - 1)) \X {1, 2} :
          /\ ~nodes[p + 1].isleaf
          /\ n = (IF c = 1 THEN nodes[p + 1].child1 ELSE nodes[p + 1].child2) }

\* C20: after Build, node 0 is the root; an internal node at index i holds
\* child1 = i + 1 < child2 < nodes_.size(); every node but the root is the
\* child of exactly one internal node, and the root of none
C20_NodesFormTree ==
    Built =>
        /\ Len(nodes_) >= 1
        /\ ParentLinks(nodes_, 0) = {}
        /\ \A i \in 0..(Len(nodes_) - 1) :
               /\ ~nodes_[i + 1].isleaf =>
                      /\ nodes_[i + 1].child1 = i + 1
                      /\ nodes_[i + 1].child1 < nodes_[i + 1].child2
                      /\ nodes_[i + 1].child2 < Len(nodes_)
               /\ i > 0 => Cardinality(ParentLinks(nodes_, i)) = 1
        /\ SubtreeNodes(nodes_, 0) = 0..(Len(nodes_) - 1)

\* a second Build has produced a tree of seven nodes
C20_Witness ==
    /\ Built /\ numBuilds = 2
    /\ Len(nodes_) = 7
    /\ ~nodes_[1].isleaf /\ nodes_[1].child1 = 1 /\ nodes_[1].child2 = 4
    /\ Len(prevAccel.nodes) >= 1

-----------------------------------------------------------------------------
(* The ranges the nodes are built over *)

\* the calls Build_(b, e) that produced node n and the nodes below it, as
\* triples <<node, b, e>>, node n being produced by Build_(begin, end): the
\* call for child1 directly follows, over [begin, mid), then the call for
\* child2 over [mid, end)
RECURSIVE BuiltOver(_, _, _, _)
BuiltOver(nodes, n, begin, end) ==
    IF nodes[n + 1].isleaf THEN {<<n, begin, end>>}
    ELSE LET mid == begin + (end - begin) \div 2
         IN  {<<n, begin, end>>}
                 \cup BuiltOver(nodes, nodes[n + 1].child1, begin, mid)
                 \cup BuiltOver(nodes, nodes[n + 1].child2, mid, end)

\* the calls of the Build that produced nodes_
Calls == BuiltOver(nodes_, 0, 0, Len(triangles_))

\* C21: Build emits a leaf exactly when end - begin < 10 (a range of 10 is
\* split, a range of 9 is a leaf), and the leaf stores the range [begin, end)
\* it was built over
C21_LeafBelowThreshold ==
    Built =>
        \A c \in Calls :
            LET node == nodes_[c[1] + 1]
            IN  /\ node.isleaf <=> c[3] - c[2] < 10
                /\ node.isleaf => node.begin = c[2] /\ node.end = c[3]

\* one tree holds a range of 10 that was split and a leaf over 9 triangles
C21_Witness ==
    /\ Built /\ Len(triangles_) = 19
    /\ \E c \in Calls : c[3] - c[2] = 10 /\ ~nodes_[c[1] + 1].isleaf
    /\ \E c \in Calls : c[3] - c[2] = 9 /\ nodes_[c[1] + 1].isleaf
                            /\ nodes_[c[1] + 1].begin = c[2] /\ nodes_[c[1] + 1].end = c[3]

\* the triangles below node n as the leaves record them: from the begin of
\* its first leaf to the end of its last
RECURSIVE Span(_, _)
Span(nodes, n) ==
    IF nodes[n + 1].isleaf THEN <<nodes[n + 1].begin, nodes[n + 1].end>>
    ELSE <<Span(nodes, nodes[n + 1].child1)[1], Span(nodes, nodes[n + 1].child2)[2]>>

\* C22: an internal node over [begin, end) has child1 over [begin, mid) and
\* child2 over [mid, end), mid = begin + floor((end - begin) / 2); the two
\* ranges are non-empty, disjoint, cover the parent's and differ in length by
\* at most one
C22_MedianSplit ==
    Built =>
        \A i \in 0..(Len(nodes_) - 1) :
            ~nodes_[i + 1].isleaf =>
                LET own == Span(nodes_, i)
                    c1 == Span(nodes_, nodes_[i + 1].child1)
                    c2 == Span(nodes_, nodes_[i + 1].child2)
                    mid == own[1] + (own[2] - own[1]) \div 2
                IN  /\ c1 = <<own[1], mid>> /\ c2 = <<mid, own[2]>>
                    /\ c1[1] < c1[2] /\ c2[1] < c2[2]
                    /\ (c1[1] .. (c1[2] - 1)) \cap (c2[1] .. (c2[2] - 1)) = {}
                    /\ (c1[1] .. (c1[2] - 1)) \cup (c2[1] .. (c2[2] - 1))
                           = own[1] .. (own[2] - 1)
                    /\ Abs((c1[2] - c1[1]) - (c2[2] - c2[1])) <= 1
                    /\ <<i, own[1], own[2]>> \in Calls

\* a root over 19 triangles, split into 9 and 10
C22_Witness ==
    /\ Built /\ ~nodes_[1].isleaf
    /\ Span(nodes_, 0) = <<0, 19>>
    /\ Span(nodes_, nodes_[1].child1) = <<0, 9>>
    /\ Span(nodes_, nodes_[1].child2) = <<9, 19>>

-----------------------------------------------------------------------------
(* The descent *)

\* C23: at an internal node whose bound the ray hits, Intersect_ calls child1,
\* then child2 whatever child1 returned, and returns true iff one of the two
\* returned true
C23_BothChildrenInOrder ==
    [][\A t \in 1..NThreads :
         th[t].pc = "run" /\ th[t].stack # << >> /\ th'[t] # th[t] =>
             LET f == Top(t)
                 node == nodes_[f.idx + 1]
                 depth == Len(th[t].stack)
             IN  /\ f.stage = "enter" /\ ~node.isleaf
                        /\ BoundIntersect(node.bound, th[t].ray, th[t].minT, th[t].maxT) =>
                        /\ Len(th'[t].stack) = depth + 1
                        /\ th'[t].stack[depth].idx = f.idx
                        /\ th'[t].stack[depth].stage = "child1"
                        /\ th'[t].stack[depth + 1] = Frame(node.child1)
                 /\ f.stage = "child1" =>
                        /\ Len(th'[t].stack) = depth + 1
                        /\ th'[t].stack[depth].idx = f.idx
                        /\ th'[t].stack[depth].stage = "child2"
                        /\ th'[t].stack[depth].hit = th[t].retval
                        /\ th'[t].stack[depth + 1] = Frame(node.child2)
                 /\ f.stage = "child2" =>
                        /\ Len(th'[t].stack) = depth - 1
                        /\ th'[t].retval = (f.hit \/ th[t].retval)]_vars

\* child1 has reported a hit and child2 is being visited all the same
C23_Witness ==
    \E t \in 1..NThreads :
        /\ th[t].pc = "run" /\ Len(th[t].stack) >= 2
        /\ LET parent == th[t].stack[Len(th[t].stack) - 1]
           IN  /\ parent.stage = "child2" /\ parent.hit
               /\ Top(t) = Frame(nodes_[parent.idx + 1].child2)

-----------------------------------------------------------------------------
(* The leaves *)

\* C24: after Build over N = triangles_.size() triangles the leaf ranges, in
\* node-index order, partition [0, N): 0 <= begin <= end <= N for every leaf,
\* consecutive leaves are contiguous, every triangle index lies in exactly one
\* leaf; a traversal enters no node twice, so it tests no triangle twice
C24_LeavesPartition ==
    Built =>
        LET N == Len(triangles_)
            leaves == {i \in 0..(Len(nodes_) - 1) : nodes_[i + 1].isleaf}
        IN  /\ leaves # {}
            /\ \A i \in leaves :
                   /\ 0 <= nodes_[i + 1].begin /\ nodes_[i + 1].begin <= nodes_[i + 1].end
                   /\ nodes_[i + 1].end <= N
                   /\ (\A j \in leaves : j >= i) => nodes_[i + 1].begin = 0
                   /\ (\A j \in leaves : j <= i) => nodes_[i + 1].end = N
                   /\ \A j \in leaves :
                          (i < j /\ \A k \in leaves : ~(i < k /\ k < j)) =>
                              nodes_[i + 1].end = nodes_[j + 1].begin
            /\ \A k \in 0..(N - 1) :
                   Cardinality({i \in leaves : nodes_[i + 1].begin <= k
                                                   /\ k < nodes_[i + 1].end}) = 1
            /\ SubtreeTriangles(nodes_, 0) = 0..(N - 1)
            /\ \A t \in 1..NThreads :
                   /\ \A v, w \in th[t].visits : v.idx = w.idx => v = w
                   /\ th[t].tested \subseteq 0..(N - 1)

\* a tree with six leaves over 38 triangles, and a traversal that has
\* tested triangles of more than one leaf
C24_Witness ==
    /\ Built /\ Len(triangles_) = 38
    /\ Cardinality({i \in 0..(Len(nodes_) - 1) : nodes_[i + 1].isleaf}) = 6
    /\ \E t \in 1..NThreads :
           \E i, j \in 0..(Len(nodes_) - 1) :
               /\ i < j /\ nodes_[i + 1].isleaf /\ nodes_[j + 1].isleaf
               /\ nodes_[i + 1].begin \in th[t].tested
               /\ nodes_[j + 1].begin \in th[t].tested

\* C29: over N >= 10 triangles every leaf holds between 5 and 9 triangles;
\* over N < 10 the tree is the root alone, a leaf holding all N
C29_LeafSizes ==
    Built =>
        LET N == Len(triangles_)
        IN  IF N >= 10
            THEN \A i \in 0..(Len(nodes_) - 1) :
                     nodes_[i + 1].isleaf =>
                         /\ 5 <= nodes_[i + 1].end - nodes_[i + 1].begin
                         /\ nodes_[i + 1].end - nodes_[i + 1].begin <= 9
            ELSE /\ Len(nodes_) = 1 /\ nodes_[1].isleaf
                 /\ nodes_[1].begin = 0 /\ nodes_[1].end = N

\* a tree over 19 triangles with a leaf of 9 and a leaf of 5
C29_Witness ==
    /\ Built /\ Len(triangles_) = 19 /\ Len(nodes_) = 5
    /\ \E i \in 0..(Len(nodes_) - 1) :
           nodes_[i + 1].isleaf /\ nodes_[i + 1].end - nodes_[i + 1].begin = 9
    /\ \E i \in 0..(Len(nodes_) - 1) :
           nodes_[i + 1].isleaf /\ nodes_[i + 1].end - nodes_[i + 1].begin = 5

-----------------------------------------------------------------------------
(* Mat3::Identity *)

\* C28: Mat3::Identity() has the columns (1,0,0), (0,1,0), (0,0,1), and
\* Identity() * v = v, Identity() * m = m = m * Identity() for every Vec3 v and
\* Mat3 m
C28_Mat3IdentityNeutral ==
    calc.op = "identity" =>
        /\ calc.out.iv = V3(calc.y)
        /\ calc.out.im = M3(calc.m)
        /\ calc.out.mi = M3(calc.m)
        /\ Mat3Identity = << <<1, 0, 0>>, <<0, 1, 0>>, <<0, 0, 1>> >>

-----------------------------------------------------------------------------
(* logger.cpp: Logger::Instance *)

\* the logger alone: the accelerator and the math layer are not used
InitLog ==
    /\ triangles_ = << >> /\ nodes_ = << >> /\ bounds_ = << >>
    /\ buildRet = FALSE /\ builtScene = << >> /\ numBuilds = 0
    /\ prevAccel = [triangles |-> << >>, nodes |-> << >>, scene |-> << >>]
    /\ crashed = FALSE
    /\ th = [t \in 1..NThreads |-> Idle]
    /\ calc = NoCalc
    /\ lg = LoggerInit

LoggerOnly ==
    UNCHANGED <<triangles_, nodes_, bounds_, buildRet, builtScene, numBuilds, prevAccel,
                crashed, th, calc>>

\* auto* p = instance.load(relaxed); fence(acquire); if (p == nullptr): a
\* relaxed load outside the lock may still read the initial null unless this
\* thread has already seen the pointer
InstanceLoad(t) ==
    /\ lg.ipc[t] = "idle"
    /\ \E v \in {lg.instance} \cup (IF lg.got[t] = 0 THEN {0} ELSE {}) :
           lg' = [lg EXCEPT !.p[t] = v, !.ipc[t] = IF v = 0 THEN "lock" ELSE "ret"]
    /\ LoggerOnly

\* std::lock_guard<std::mutex> lock(mutex)
InstanceLock(t) ==
    /\ lg.ipc[t] = "lock" /\ lg.mutex = 0
    /\ lg' = [lg EXCEPT !.mutex = t, !.ipc[t] = "recheck"]
    /\ LoggerOnly

\* a second test that always finds the instance missing
NeedsNewAlways(p) == TRUE

\* if (p == nullptr), under the lock
NeedsNew(p) == p = 0

\* p = instance.load(relaxed) under the lock: the store of the thread that
\* held the lock before is visible
InstanceRecheck(t) ==
    /\ lg.ipc[t] = "recheck"
    /\ lg' = [lg EXCEPT !.p[t] = lg.instance,
                        !.ipc[t] = IF NeedsNew(lg.instance) THEN "new" ELSE "ret"]
    /\ LoggerOnly

\* p = new Logger; fence(release); instance.store(p, relaxed)
InstanceCreate(t) ==
    /\ lg.ipc[t] = "new"
    /\ lg' = [lg EXCEPT !.made = Append(lg.made, t), !.p[t] = Len(lg.made) + 1,
                        !.instance = Len(lg.made) + 1, !.ipc[t] = "ret"]
    /\ LoggerOnly

\* the lock_guard, if taken, is released; return p
InstanceReturn(t) ==
    /\ lg.ipc[t] = "ret"
    /\ lg' = [lg EXCEPT !.got[t] = lg.p[t], !.ipc[t] = "idle",
                        !.mutex = IF lg.mutex = t THEN 0 ELSE lg.mutex]
    /\ LoggerOnly

NextInstance ==
    \/ \E t \in 1..NCallers : InstanceLoad(t)
    \/ \E t \in 1..NCallers : InstanceLock(t)
    \/ \E t \in 1..NCallers : InstanceRecheck(t)
    \/ \E t \in 1..NCallers : InstanceCreate(t)
    \/ \E t \in 1..NCallers : InstanceReturn(t)

SpecInstance == InitLog /\ [][NextInstance]_vars

\* C26: for any number of threads calling Logger::Instance concurrently, at
\* most one Logger is ever constructed and every call returns a pointer to
\* that one, fully constructed object
C26_SingletonThreadSafe ==
    /\ Len(lg.made) <= 1
    /\ \A t \in 1..NCallers :
           /\ lg.got[t] # 0 => lg.got[t] = 1 /\ lg.got[t] = lg.instance /\ Len(lg.made) = 1
           /\ lg.ipc[t] = "ret" => lg.p[t] = 1 /\ lg.p[t] = lg.instance /\ Len(lg.made) = 1

\* one thread has constructed the Logger, a second one that had read null
\* found the pointer under the lock, and a third has returned it
C26_Witness ==
    \E t1, t2, t3 \in 1..NCallers :
        /\ t1 # t2 /\ t2 # t3
        /\ lg.made = <<t1>>
        /\ lg.ipc[t2] = "ret" /\ lg.mutex = t2 /\ lg.p[t2] = 1
        /\ lg.got[t3] = 1

-----------------------------------------------------------------------------
(* logger.cpp: Run, Stop, Log, UpdateIndentation and the worker thread *)

\* calls of Run and posts to io in one behaviour
MaxRuns == 2
MaxPosts == 3

\* an update that keeps counting below zero
IndentationAfterUnclamped(level, push) ==
    LET ind == level + (IF push THEN 1 ELSE -1)
    IN  [Indentation |-> ind,
         IndentationString |-> IF ind > 0 THEN [i \in 1..(4 * ind) |-> "."] \o <<" ">>
                                          ELSE << >>]

\* the handler posted by UpdateIndentation: Indentation += push ? 1 : -1, then
\* the string of 4 * Indentation dots and a space, or 0 and the empty string
IndentationAfter(level, push) ==
    LET ind == level + (IF push THEN 1 ELSE -1)
    IN  IF ind > 0
        THEN [Indentation |-> ind,
              IndentationString |-> [i \in 1..(4 * ind) |-> "."] \o <<" ">>]
        ELSE [Indentation |-> 0, IndentationString |-> << >>]

\* one posted handler executed by the thread inside io.run()
RunHandler(l, h) ==
    IF h.kind = "log"
    THEN [l EXCEPT !.out = Append(l.out, [id |-> h.id, indent |-> l.IndentationString,
                                          inplace |-> h.inplace,
                                          erased |-> l.prevMessageIsInplace]),
                   !.prevMessageIsInplace = h.inplace,
                   !.done = Append(l.done, h)]
    ELSE [l EXCEPT !.Indentation = IndentationAfter(l.Indentation, h.push).Indentation,
                   !.IndentationString =
                       IndentationAfter(l.Indentation, h.push).IndentationString,
                   !.done = Append(l.done, h)]

\* io.post(handler)
Post(l, kind, inplace, push) ==
    [l EXCEPT !.queue = Append(l.queue, [kind |-> kind, id |-> l.posts + 1,
                                         inplace |-> inplace, push |-> push]),
              !.posts = l.posts + 1,
              !.postRun = Append(l.postRun, IF l.ioThread = "none" THEN 0 ELSE l.runs)]

\* Run(), as the fixtures call it (no Run while ioThread is joinable)
Run ==
    /\ ~lg.inStop /\ lg.ioThread = "none" /\ lg.runs < MaxRuns
    /\ lg' = [lg EXCEPT !.ioThread = "running", !.runs = lg.runs + 1]
    /\ LoggerOnly

\* Log(type, message, line, inplace)
Log(inplace) ==
    /\ ~lg.inStop /\ lg.posts < MaxPosts
    /\ lg' = Post(lg, "log", inplace, FALSE)
    /\ LoggerOnly

\* UpdateIndentation(push)
UpdateIndentation(push) ==
    /\ ~lg.inStop /\ lg.posts < MaxPosts
    /\ lg' = Post(lg, "indent", FALSE, push)
    /\ LoggerOnly

\* Stop() up to the join: if (ioThread.joinable()) work.reset()
Stop ==
    /\ ~lg.inStop
    /\ lg' = IF lg.ioThread # "none"
             THEN [lg EXCEPT !.work = FALSE, !.inStop = TRUE]
             ELSE [lg EXCEPT !.lastStop = "noop"]
    /\ LoggerOnly

\* ioThread.join() returns once io.run() has returned; Stop returns
StopJoin ==
    /\ lg.inStop /\ lg.ioThread = "finished"
    /\ lg' = [lg EXCEPT !.ioThread = "none", !.inStop = FALSE, !.lastStop = "joined"]
    /\ LoggerOnly

\* io.run() executes the next handler
WorkerRun ==
    /\ lg.ioThread = "running" /\ ~lg.stopped /\ lg.queue # << >>
    /\ lg' = RunHandler([lg EXCEPT !.queue = Tail(lg.queue)], Head(lg.queue))
    /\ LoggerOnly

\* io.run() returns: at once when the io_service is stopped, otherwise when
\* no handler and no work object is left, which stops the io_service
WorkerExit ==
    /\ lg.ioThread = "running"
    /\ lg.stopped \/ (lg.queue = << >> /\ ~lg.work)
    /\ lg' = [lg EXCEPT !.stopped = TRUE, !.ioThread = "finished"]
    /\ LoggerOnly

NextLog ==
    \/ Run
    \/ \E inplace \in BOOLEAN : Log(inplace)
    \/ \E push \in BOOLEAN : UpdateIndentation(push)
    \/ Stop
    \/ StopJoin
    \/ WorkerRun
    \/ WorkerExit

SpecLog == InitLog /\ [][NextLog]_vars

\* the worker thread and a joining caller are scheduled
SpecLogLive == SpecLog /\ WF_vars(WorkerRun) /\ WF_vars(WorkerExit) /\ WF_vars(StopJoin)

-----------------------------------------------------------------------------
(* Indentation *)

\* the level after the first k executed handlers: a push adds one, a pop
\* takes one away but never below zero
RECURSIVE Level(_, _)
Level(done, k) ==
    IF k = 0 THEN 0
    ELSE LET h == done[k]
             before == Level(done, k - 1)
         IN  IF h.kind # "indent" THEN before
             ELSE IF h.push THEN before + 1
             ELSE IF before > 0 THEN before - 1 ELSE 0

\* C30: after any sequence of processed UpdateIndentation calls the level is
\* never negative, a pop at level 0 leaves it at 0 and is not remembered, and
\* the indentation string is empty at level 0 and 4 * level dots and a space
\* otherwise
C30_IndentationClamped ==
    /\ lg.Indentation >= 0
    /\ lg.Indentation = Level(lg.done, Len(lg.done))
    /\ lg.Indentation = 0 => lg.IndentationString = << >>
    /\ lg.Indentation > 0 =>
           /\ Len(lg.IndentationString) = 4 * lg.Indentation + 1
           /\ \A i \in 1..(4 * lg.Indentation) : lg.IndentationString[i] = "."
           /\ lg.IndentationString[4 * lg.Indentation + 1] = " "

\* a pop at level 0 has been processed, then a push: the level is 1
C30_Witness ==
    /\ lg.Indentation = 1
    /\ lg.IndentationString = <<".", ".", ".", ".", " ">>
    /\ \E i, j \in 1..Len(lg.done) :
           /\ i < j
           /\ lg.done[i].kind = "indent" /\ ~lg.done[i].push /\ Level(lg.done, i - 1) = 0
           /\ lg.done[j].kind = "indent" /\ lg.done[j].push

-----------------------------------------------------------------------------
(* Run / Stop cycles *)

\* C27: Stop drains the queue: when a Stop that found the logger running
\* returns, every handler posted before it was called has been executed by
\* the worker, one at a time and in posting order; a Stop on a logger that is
\* not running returns at once and changes nothing
C27_StopDrains ==
    [][/\ lg.inStop /\ ~lg'.inStop =>
              /\ lg.queue = << >>
              /\ Len(lg.done) = lg.posts
       /\ lg'.done # lg.done =>
              /\ lg.queue # << >>
              /\ lg'.done = Append(lg.done, Head(lg.queue))
              /\ Head(lg.queue).id = Len(lg.done) + 1
              /\ lg'.queue = Tail(lg.queue)
       /\ ~lg.inStop /\ lg.ioThread = "none" /\ lg'.lastStop # lg.lastStop =>
              lg' = [lg EXCEPT !.lastStop = "noop"]]_vars

\* C25: after Run, Stop, Run, a message passed to Log is eventually printed
\* by the worker thread, and the following Stop returns
C25_SecondCycleLogs ==
    /\ \A i \in 1..MaxPosts :
           (/\ lg.posts >= i /\ lg.postRun[i] >= 2
            /\ \E h \in {lg.queue[k] : k \in 1..Len(lg.queue)}
                           \cup {lg.done[k] : k \in 1..Len(lg.done)} :
                   h.id = i /\ h.kind = "log")
               ~> (\E k \in 1..Len(lg.out) : lg.out[k].id = i)
    /\ lg.inStop ~> ~lg.inStop

====
